---- MODULE Spec2Model ----
(***************************************************************************)
(* A model of pltutils.py: helpers that decorate the current matplotlib    *)
(* axes (guide lines, marked points, title/labels, rcParams).              *)
(*                                                                         *)
(* Coordinates are integers in units of 1/20 of an axis unit, so that the  *)
(* plotting library's default 5% autoscale margin of a span that is a      *)
(* multiple of 20 is an integer, and the default view (0.0, 1.0) of fresh  *)
(* axes is <<0, 20>>.                                                      *)
(***************************************************************************)
EXTENDS Integers, Sequences, FiniteSets, TLC

VARIABLES ax, fig, rc, last

vars == <<ax, fig, rc, last>>

\* ------------------------------------------------------------- bounds
MaxGuides == 2
MaxPointLen == 3
MaxVars == 3
MaxParams == 2

\* Sample coordinates: one below and one above the default view <<0, 20>>
\* (both inside the view once data has been plotted at both).
Coords == {-20, 40}

\* ------------------------------------------------------ python values
SeqsUpTo(S, n) == UNION {[1..k -> S] : k \in 0..n}

\* x: Union[float, list[float]] as the caller can pass it: a number, a list,
\* or another ordered sequence (a tuple).
GuideArgs ==
    [kind : {"float"}, vals : [1..1 -> Coords]]
        \cup [kind : {"list", "tuple"}, vals : SeqsUpTo(Coords, MaxGuides)]

\* tuple[float, float] as annotated
Points == [1..2 -> Coords]
\* what a caller can pass for a point: any sequence of coordinates
AnyPoints == SeqsUpTo(Coords, MaxPointLen)

Abs(v) == IF v < 0 THEN -v ELSE v
Max2(a, b) == IF a < b THEN b ELSE a

\* ------------------------------------------- the plotting library (pyplot)
\* The axes' data limits before anything is plotted.
NoData == <<>>

\* Data limits extended to cover the values vs.
Hull(d, vs) ==
    LET all == {vs[i] : i \in 1..Len(vs)} \cup (IF d = NoData THEN {} ELSE {d[1], d[2]})
    IN  IF all = {} THEN NoData
        ELSE <<CHOOSE m \in all : \A v \in all : m <= v,
               CHOOSE m \in all : \A v \in all : m >= v>>

\* The view range autoscaling gives for data limits d: the data interval plus
\* a 5% margin on each side; a single value is widened by 5% of its magnitude
\* (by 0.05 around zero).
AutoView(d) ==
    IF d[1] = d[2]
    THEN IF d[1] = 0 THEN <<-1, 1>>
         ELSE <<d[1] - Abs(d[1]) \div 20, d[2] + Abs(d[2]) \div 20>>
    ELSE <<d[1] - (d[2] - d[1]) \div 20, d[2] + (d[2] - d[1]) \div 20>>

\* Fresh axes: view (0, 1) on both axes, autoscaling on, nothing plotted.
\* lines and points are the artists added during the current call.
NewAxes ==
    [xlim |-> <<0, 20>>, ylim |-> <<0, 20>>,
     autoscalex |-> TRUE, autoscaley |-> TRUE,
     dataX |-> NoData, dataY |-> NoData,
     lines |-> <<>>, points |-> <<>>]

\* The view of an autoscaling axis with data limits d and current view v.
\* Without data the untouched default view becomes the locator's default
\* (-0.05, 0.05) and any other view stays.
Autoscaled(d, v) ==
    IF d # NoData THEN AutoView(d)
    ELSE IF v = <<0, 20>> THEN <<-1, 1>>
    ELSE v

\* autoscale_view(): every axis that still autoscales gets the autoscaled view
autoscale_view(a) ==
    [a EXCEPT !.xlim = IF a.autoscalex THEN Autoscaled(a.dataX, @) ELSE @,
              !.ylim = IF a.autoscaley THEN Autoscaled(a.dataY, @) ELSE @]

\* Adding an artist with coordinates xs, ys: the data limits grow to cover it
\* and the view is autoscaled.
AddData(a, xs, ys) ==
    autoscale_view([a EXCEPT !.dataX = Hull(a.dataX, xs), !.dataY = Hull(a.dataY, ys)])

AddLine(a, xs, ys) ==
    [AddData(a, xs, ys) EXCEPT !.lines = Append(@, [xs |-> xs, ys |-> ys])]

\* A 1-D argument of plot (a pair) is an array of one column.
Vec(pair) == <<pair>>

RECURSIVE PlotColumns(_, _, _, _)
PlotColumns(a, X, Y, j) ==
    IF j > Max2(Len(X), Len(Y)) THEN a
    ELSE PlotColumns(AddLine(a, X[((j - 1) % Len(X)) + 1], Y[((j - 1) % Len(Y)) + 1]),
                     X, Y, j + 1)

\* plt.plot(x, y): x and y are arrays of columns; one line per column, a
\* single column of one argument paired with every column of the other; an
\* argument of no columns gives no line, and the view is autoscaled anyway.
plt_plot(a, X, Y) ==
    IF Len(X) = 0 \/ Len(Y) = 0 THEN autoscale_view(a) ELSE PlotColumns(a, X, Y, 1)

\* plt.scatter(x, y): one marker
plt_scatter(a, x, y) ==
    [AddData(a, <<x>>, <<y>>) EXCEPT !.points = Append(@, <<x, y>>)]

\* plt.xlim() / plt.ylim() without arguments read the view range
plt_xlim_get(a) == a.xlim
plt_ylim_get(a) == a.ylim

\* plt.xlim(v) / plt.ylim(v) set the view range and switch that axis'
\* autoscaling off
plt_xlim_set(a, v) == [a EXCEPT !.xlim = v, !.autoscalex = FALSE]
plt_ylim_set(a, v) == [a EXCEPT !.ylim = v, !.autoscaley = FALSE]

\* ------------------------------------------------------------ pltutils
\* [x] * 2 as an array: a number gives one column <<x, x>>, a sequence of n
\* values gives two equal rows, that is n columns <<v, v>>.
Twice(x) == [j \in 1..Len(x.vals) |-> <<x.vals[j], x.vals[j]>>]

\* [xi] * 2 for a number xi
TwiceNum(xi) == <<xi, xi>>

\* Python's seq[0] and seq[-1]
First(p) == p[1]
LastOf(p) == p[Len(p)]

\* line(x1y1, x2y2): p[0] and p[-1] raise IndexError on an empty sequence
line_raises(x1y1, x2y2) == Len(x1y1) = 0 \/ Len(x2y2) = 0

line_norange(a, x1y1, x2y2) ==
    LET x_lim == plt_xlim_get(a)
        y_lim == plt_ylim_get(a)
        x_arr == <<First(x1y1), First(x2y2)>>
        y_arr == <<LastOf(x1y1), LastOf(x2y2)>>
    IN  plt_ylim_set(plt_xlim_set(plt_plot(a, Vec(x_arr), Vec(y_arr)), x_lim), y_lim)

line(a, x1y1, x2y2) ==
    LET x_arr == <<First(x1y1), First(x2y2)>>
        y_arr == <<LastOf(x1y1), LastOf(x2y2)>>
    IN  plt_plot(a, Vec(x_arr), Vec(y_arr))

RECURSIVE VerticalEach(_, _, _, _)
VerticalEach(a, xs, y_arr, i) ==
    IF i > Len(xs) THEN a
    ELSE VerticalEach(plt_plot(a, Vec(TwiceNum(xs[i])), Vec(y_arr)), xs, y_arr, i + 1)

RECURSIVE VerticalEachReread(_, _, _)
VerticalEachReread(a, xs, i) ==
    IF i > Len(xs) THEN a
    ELSE VerticalEachReread(plt_plot(a, Vec(TwiceNum(xs[i])), Vec(plt_ylim_get(a))), xs, i + 1)

line_vertical_reread(a, x) ==
    LET y_arr == plt_ylim_get(a)
        a1 == IF x.kind = "list"
              THEN VerticalEachReread(a, x.vals, 1)
              ELSE plt_plot(a, Twice(x), Vec(y_arr))
    IN  plt_ylim_set(a1, y_arr)

line_vertical_norestore(a, x) ==
    LET y_arr == plt_ylim_get(a)
    IN  IF x.kind = "list" THEN VerticalEach(a, x.vals, y_arr, 1)
        ELSE plt_plot(a, Twice(x), Vec(y_arr))

line_vertical(a, x) ==
    LET y_arr == plt_ylim_get(a)
        a1 == IF x.kind = "list"
              THEN VerticalEach(a, x.vals, y_arr, 1)
              ELSE plt_plot(a, Twice(x), Vec(y_arr))
    IN  plt_ylim_set(a1, y_arr)

RECURSIVE HorizontalEach(_, _, _, _)
HorizontalEach(a, x_arr, ys, i) ==
    IF i > Len(ys) THEN a
    ELSE HorizontalEach(plt_plot(a, Vec(x_arr), Vec(TwiceNum(ys[i]))), x_arr, ys, i + 1)

line_horizontal(a, y) ==
    LET x_arr == plt_xlim_get(a)
        a1 == IF y.kind = "list"
              THEN HorizontalEach(a, x_arr, y.vals, 1)
              ELSE plt_plot(a, Vec(x_arr), Twice(y))
    IN  plt_xlim_set(a1, x_arr)

\* mark_point(xy): xy[0], xy[1] raise IndexError on fewer than two elements,
\* while the arguments of the first drawing call are evaluated
mark_point_raises(xy) == Len(xy) < 2

mark_point_norestore(a, xy) ==
    LET x_arr == plt_xlim_get(a)
        y_arr == plt_ylim_get(a)
        a1 == plt_scatter(a, xy[1], xy[2])
        a2 == plt_plot(a1, Vec(<<x_arr[1], xy[1]>>), Vec(<<xy[2], xy[2]>>))
    IN  plt_plot(a2, Vec(<<xy[1], xy[1]>>), Vec(<<y_arr[1], xy[2]>>))

mark_point(a, xy) ==
    LET x_arr == plt_xlim_get(a)
        y_arr == plt_ylim_get(a)
        a1 == plt_scatter(a, xy[1], xy[2])
        a2 == plt_plot(a1, Vec(<<x_arr[1], xy[1]>>), Vec(<<xy[2], xy[2]>>))
        a3 == plt_plot(a2, Vec(<<xy[1], xy[1]>>), Vec(<<y_arr[1], xy[2]>>))
    IN  plt_ylim_set(plt_xlim_set(a3, x_arr), y_arr)

\* ------------------------------------------- pltutils: titles and style
\* Python values a helper can return: a str, or None
NoneVal == [kind |-> "None"]
Str(s) == [kind |-> "str", s |-> s]

\* "{v}" inside an f-string
Format(v) == IF v.kind = "None" THEN "None" ELSE v.s

\* sep.join(strs)
RECURSIVE Join(_, _)
Join(sep, strs) ==
    IF Len(strs) = 0 THEN ""
    ELSE IF Len(strs) = 1 THEN strs[1]
    ELSE strs[1] \o sep \o Join(sep, Tail(strs))

_var_list2str_nobraket(vs, hasBraket) ==
    IF Len(vs) = 1 THEN Str(vs[1])
    ELSE IF Len(vs) > 1 THEN Str(Join(",~", vs))
    ELSE NoneVal

_var_list2str(vs, hasBraket) ==
    IF Len(vs) = 1 THEN Str(vs[1])
    ELSE IF Len(vs) > 1
         THEN Str(IF hasBraket THEN "(~" \o Join(",~", vs) \o "~)" ELSE Join(",~", vs))
    ELSE NoneVal

\* params.items() is the dict's insertion order: a sequence of <<k, v>>
_param_dict2str_sep(params) ==
    Join(",", [i \in 1..Len(params.items) |->
                   params.items[i][1] \o "=" \o params.items[i][2]])

_param_dict2str(params) ==
    Join(",~", [i \in 1..Len(params.items) |->
                    params.items[i][1] \o "=" \o params.items[i][2]])

_build_plt_title(ans, vs, params) ==
    LET var_str == _var_list2str(vs, TRUE)
    IN  IF params.kind = "None"
        THEN "$" \o ans \o "$ vs $" \o Format(var_str) \o "$"
        ELSE "$" \o ans \o "$ vs $" \o Format(var_str) \o "$ when $"
                 \o _param_dict2str(params) \o "$"

\* class Style(Enum)
Style == {"Style.SETE", "Style.NILOU", "Style.HUTAO", "Style.RAIDEN", "Style.N"}

prop_cycle(style) ==
    CASE style = "Style.SETE" ->
           "cycler('color', ['1fa89d','e72d5c','ff7800','fabb0b','9832c3','4a57a4','a77c4f'])"
      [] style = "Style.NILOU" ->
           "cycler('color', ['#15365e','#76a1b9','#bed9e5','#65588a','#d75038'])"
      [] style = "Style.HUTAO" ->
           "cycler('color', ['#65588a','#c94737','#3a1b19','#7b595e','#c7a085'])"
      [] style = "Style.RAIDEN" ->
           "cycler('color', ['#352660','#553b93','#9772ca','#f5e7ec','#60203c'])"
      [] style = "Style.N" ->
           "cycler('color', ['#352660','#6e0f6c','#9772ca','#f5e7ec','#60203c'])"

\* plt_style_init(style): rcParams after the call; a style that equals no
\* member takes no branch of the if/elif chain
plt_style_init(r, style) ==
    [r EXCEPT !["font.sans-serif"] = "Microsoft YaHei",
              !["axes.titlesize"] = "14",
              !["axes.labelsize"] = "16",
              !["xtick.labelsize"] = "16",
              !["ytick.labelsize"] = "16",
              !["legend.fontsize"] = "14",
              !["figure.figsize"] = "8, 6",
              !["axes.prop_cycle"] = IF style \in Style THEN prop_cycle(style) ELSE @,
              !["legend.loc"] = "upper right"]

\* plt.title / plt.xlabel / plt.ylabel / plt.legend on the current figure;
\* calls lists the pyplot calls made during the current call
plt_title(f, s) == [f EXCEPT !.title = s, !.calls = Append(@, "title")]
plt_xlabel(f, s) == [f EXCEPT !.xlabel = s, !.calls = Append(@, "xlabel")]
plt_ylabel(f, s) == [f EXCEPT !.ylabel = s, !.calls = Append(@, "ylabel")]
plt_legend(f) == [f EXCEPT !.legend = TRUE, !.calls = Append(@, "legend")]

post_braket(f, ans, vs, params, hasLabel) ==
    LET f1 == plt_title(f, _build_plt_title(ans, vs, params))
        f2 == plt_xlabel(f1, "$" \o Format(_var_list2str(vs, TRUE)) \o "$")
        f3 == plt_ylabel(f2, "$" \o ans \o "$")
    IN  IF hasLabel THEN plt_legend(f3) ELSE f3

post(f, ans, vs, params, hasLabel) ==
    LET f1 == plt_title(f, _build_plt_title(ans, vs, params))
        f2 == plt_xlabel(f1, "$" \o Format(_var_list2str(vs, FALSE)) \o "$")
        f3 == plt_ylabel(f2, "$" \o ans \o "$")
    IN  IF hasLabel THEN plt_legend(f3) ELSE f3

\* ------------------------------------------------------- text inputs
DepNames == {"y", "E"}
VarNames == {"x", "t"}
ParamKeys == {"k", "g"}
ParamValues == {"0.1"}

VarLists == SeqsUpTo(VarNames, MaxVars)

\* params: None, or a dict (distinct keys, in insertion order)
Dicts ==
    {d \in SeqsUpTo(ParamKeys \X ParamValues, MaxParams) :
        \A i, j \in 1..Len(d) : i # j => d[i][1] # d[j][1]}
ParamArgs == {NoneVal} \cup [kind : {"dict"}, items : Dicts]

\* hasLabel=True: omitted, or given
HasLabelArgs == {[given |-> FALSE]} \cup [given : {TRUE}, val : BOOLEAN]

\* what a caller can pass as style: a member, or something that is none
StyleArgs == Style \cup {"0", "SETE"}

\* ------------------------------------------------------------- actions
\* The axes as a call finds them: the artists of the previous call are no
\* longer "this call's".
Entering(a) == [a EXCEPT !.lines = <<>>, !.points = <<>>]

View(a) == [xlim |-> a.xlim, ylim |-> a.ylim,
            autoscalex |-> a.autoscalex, autoscaley |-> a.autoscaley]

\* Nothing annotated yet
NewFigure == [title |-> "", xlabel |-> "", ylabel |-> "", legend |-> FALSE, calls |-> <<>>]

\* The rcParams this module writes, at the library's defaults
rcdefaults ==
    [k \in {"font.sans-serif", "axes.titlesize", "axes.labelsize", "xtick.labelsize",
            "ytick.labelsize", "legend.fontsize", "figure.figsize", "axes.prop_cycle",
            "legend.loc"} |-> "default"]

Init ==
    /\ ax = NewAxes
    /\ fig = NewFigure
    /\ rc = rcdefaults
    /\ last = [op |-> "none"]

line_call(P) ==
    \E x1y1 \in P, x2y2 \in P :
        /\ ax' = IF line_raises(x1y1, x2y2) THEN Entering(ax)
                 ELSE line(Entering(ax), x1y1, x2y2)
        /\ last' = [op |-> "line", args |-> <<x1y1, x2y2>>, pre |-> View(ax),
                    result |-> IF line_raises(x1y1, x2y2) THEN "IndexError" ELSE "ok"]
        /\ UNCHANGED <<fig, rc>>

line_vertical_call ==
    \E x \in GuideArgs :
        /\ ax' = line_vertical(Entering(ax), x)
        /\ last' = [op |-> "line_vertical", args |-> x, pre |-> View(ax), result |-> "ok"]
        /\ UNCHANGED <<fig, rc>>

line_horizontal_call ==
    \E y \in GuideArgs :
        /\ ax' = line_horizontal(Entering(ax), y)
        /\ last' = [op |-> "line_horizontal", args |-> y, pre |-> View(ax), result |-> "ok"]
        /\ UNCHANGED <<fig, rc>>

mark_point_call(P) ==
    \E xy \in P :
        /\ ax' = IF mark_point_raises(xy) THEN Entering(ax)
                 ELSE mark_point(Entering(ax), xy)
        /\ last' = [op |-> "mark_point", args |-> xy, pre |-> View(ax),
                    result |-> IF mark_point_raises(xy) THEN "IndexError" ELSE "ok"]
        /\ UNCHANGED <<fig, rc>>

NextDraw ==
    \/ line_call(Points)
    \/ line_vertical_call
    \/ line_horizontal_call
    \/ mark_point_call(Points)

DrawSpec == Init /\ [][NextDraw]_vars

NextAnyPoint ==
    \/ line_call(AnyPoints)
    \/ mark_point_call(AnyPoints)

AnyPointSpec == Init /\ [][NextAnyPoint]_vars

\* post(..., hasLabel=True)
hasLabelValue(arg) == IF arg.given THEN arg.val ELSE TRUE

EnteringFig(f) == [f EXCEPT !.calls = <<>>]

post_call ==
    \E ans \in DepNames, vs \in VarLists, params \in ParamArgs, arg \in HasLabelArgs :
        /\ fig' = post(EnteringFig(fig), ans, vs, params, hasLabelValue(arg))
        /\ last' = [op |-> "post", ans |-> ans, vs |-> vs, params |-> params,
                    hasLabel |-> arg, result |-> "ok"]
        /\ UNCHANGED <<ax, rc>>

plt_style_init_call ==
    \E style \in StyleArgs :
        /\ rc' = plt_style_init(rc, style)
        /\ last' = [op |-> "plt_style_init", style |-> style, pre |-> rc, result |-> "ok"]
        /\ UNCHANGED <<ax, fig>>

PostSpec == Init /\ [][post_call]_vars

\* plt_style_init overwrites rcParams whatever the caller had configured:
\* each key starts at the library's default or at a value set by the user.
InitStyle ==
    /\ ax = NewAxes
    /\ fig = NewFigure
    /\ rc \in [DOMAIN rcdefaults -> {"default", "user"}]
    /\ last = [op |-> "none"]

StyleSpec == InitStyle /\ [][plt_style_init_call]_vars

\* _build_plt_title is a pure function: the inputs are drawn first, then it
\* is applied.
InitTitle ==
    /\ ax = NewAxes
    /\ fig = NewFigure
    /\ rc = rcdefaults
    /\ \E ans \in DepNames, vs \in VarLists, params \in ParamArgs :
           last = [op |-> "input", ans |-> ans, vs |-> vs, params |-> params]

_build_plt_title_call ==
    /\ last.op = "input"
    /\ last' = [op |-> "_build_plt_title", ans |-> last.ans, vs |-> last.vs,
                params |-> last.params, result |-> "ok",
                ret |-> _build_plt_title(last.ans, last.vs, last.params)]
    /\ UNCHANGED <<ax, fig, rc>>

TitleSpec == InitTitle /\ [][_build_plt_title_call]_vars

Next == NextDraw \/ NextAnyPoint \/ post_call \/ plt_style_init_call

Spec == Init /\ [][Next]_vars

\* ------------------------------------------------------------- claims
IsGuideCall == last.op \in {"line_vertical", "line_horizontal"}
Outside(v, range) == v < range[1] \/ v > range[2]
SameView == ax.xlim = last.pre.xlim /\ ax.ylim = last.pre.ylim

\* C1 as stated: after line_vertical or line_horizontal, for any input, both
\* the x and the y view range equal their pre-call values.
C1_BothRangesUnchanged == IsGuideCall => SameView

\* C1 as amended: line_vertical leaves the y view range identical and
\* line_horizontal leaves the x view range identical; the other axis (the one
\* the coordinates lie on) keeps its range whenever its autoscaling was off.
C1_SpannedRangeUnchanged ==
    /\ last.op = "line_vertical" =>
           /\ ax.ylim = last.pre.ylim
           /\ ~last.pre.autoscalex => ax.xlim = last.pre.xlim
    /\ last.op = "line_horizontal" =>
           /\ ax.xlim = last.pre.xlim
           /\ ~last.pre.autoscaley => ax.ylim = last.pre.ylim

\* A vertical guide at a coordinate outside the x view: the y range is kept
\* while the x range has moved.
C1_Witness ==
    /\ last.op = "line_vertical"
    /\ Len(ax.lines) >= 1
    /\ \E i \in 1..Len(last.args.vals) : Outside(last.args.vals[i], last.pre.xlim)
    /\ ax.ylim = last.pre.ylim
    /\ ax.xlim # last.pre.xlim

\* C2: after mark_point, for any point, the x and the y view range equal the
\* ones read before the marker and the two guide lines were drawn.
C2_MarkPointKeepsView == last.op = "mark_point" => SameView

\* A point outside the view on both axes was marked with its two guides.
C2_Witness ==
    /\ last.op = "mark_point"
    /\ last.result = "ok"
    /\ Outside(last.args[1], last.pre.xlim)
    /\ Outside(last.args[2], last.pre.ylim)
    /\ Len(ax.points) = 1
    /\ Len(ax.lines) = 2
    /\ last.pre.autoscalex /\ last.pre.autoscaley

Segment(p1, p2) == [xs |-> <<p1[1], p2[1]>>, ys |-> <<p1[2], p2[2]>>]

\* C3 as stated: line(p1, p2) draws exactly one segment from p1 to p2 and the
\* x and y view ranges after the call equal those before it.
C3_SegmentAndNoRangeEffect ==
    (last.op = "line" /\ last.result = "ok") =>
        /\ ax.lines = <<Segment(last.args[1], last.args[2])>>
        /\ SameView

\* C3 as amended: line(p1, p2) draws exactly one segment from p1 to p2 and
\* neither sets a view range nor changes whether an axis autoscales: a range
\* whose autoscaling is off is unchanged, and an autoscaling range covers the
\* segment after the call.
C3_SegmentAndAutoscale ==
    (last.op = "line" /\ last.result = "ok") =>
        /\ ax.lines = <<Segment(last.args[1], last.args[2])>>
        /\ ax.autoscalex = last.pre.autoscalex
        /\ ax.autoscaley = last.pre.autoscaley
        /\ ~last.pre.autoscalex => ax.xlim = last.pre.xlim
        /\ ~last.pre.autoscaley => ax.ylim = last.pre.ylim
        /\ last.pre.autoscalex =>
               \A i \in 1..2 : ~Outside(last.args[i][1], ax.xlim)
        /\ last.pre.autoscaley =>
               \A i \in 1..2 : ~Outside(last.args[i][2], ax.ylim)

\* A segment with an end outside the view moved the x range.
C3_Witness ==
    /\ last.op = "line"
    /\ last.result = "ok"
    /\ Outside(last.args[1][1], last.pre.xlim)
    /\ Len(ax.lines) = 1
    /\ ax.xlim # last.pre.xlim

IsTitleCall == last.op = "_build_plt_title"

\* C4 as stated: for two independents and no params the title is
\* "$dep$ vs ($var1,~var2$)".
C4_ParenthesesOutsideMath ==
    (IsTitleCall /\ Len(last.vs) = 2 /\ last.params = NoneVal) =>
        last.ret = "$" \o last.ans \o "$ vs ($" \o last.vs[1] \o ",~" \o last.vs[2] \o "$)"

\* C4 as amended: for two independents and no params the title is
\* "$dep$ vs $(~var1,~var2~)$": the parentheses are inside the math text and
\* padded with "~".
C4_ParenthesesInsideMath ==
    (IsTitleCall /\ Len(last.vs) = 2 /\ last.params = NoneVal) =>
        last.ret = "$" \o last.ans \o "$ vs $(~" \o last.vs[1] \o ",~" \o last.vs[2] \o "~)$"

C4_Witness ==
    /\ IsTitleCall
    /\ last.ans = "y"
    /\ last.vs = <<"x", "t">>
    /\ last.params = NoneVal
    /\ last.ret = "$y$ vs $(~x,~t~)$"

\* "k1=v1,~k2=v2..." over the first n items, in order
RECURSIVE PairsText(_, _)
PairsText(items, n) ==
    IF n = 0 THEN ""
    ELSE IF n = 1 THEN items[1][1] \o "=" \o items[1][2]
    ELSE PairsText(items, n - 1) \o ",~" \o items[n][1] \o "=" \o items[n][2]

\* C5: for one independent the title is "$dep$ vs $var$" without params, and
\* that string followed by " when $k1=v1,~k2=v2...$" with params, the pairs in
\* the mapping's order.
C5_OneIndependentTitle ==
    (IsTitleCall /\ Len(last.vs) = 1) =>
        last.ret =
            "$" \o last.ans \o "$ vs $" \o last.vs[1] \o "$"
                \o (IF last.params = NoneVal THEN ""
                    ELSE " when $"
                         \o PairsText(last.params.items, Len(last.params.items))
                         \o "$")

C5_Witness ==
    /\ IsTitleCall
    /\ last.ans = "y"
    /\ last.vs = <<"x">>
    /\ last.params = [kind |-> "dict", items |-> <<<<"k", "0.1">>, <<"g", "0.1">>>>]
    /\ last.ret = "$y$ vs $x$ when $k=0.1,~g=0.1$"

\* C6: building a title (through post) for an independents list of length 0
\* or of length 3 or more fails with InvalidArgument, and no title or label
\* is set.
C6_BadLengthRejected ==
    (last.op = "post" /\ Len(last.vs) \notin {1, 2}) =>
        /\ last.result = "InvalidArgument"
        /\ fig.calls = <<>>

\* C7: plt_style_init with a style that is no member of Style fails with
\* InvalidArgument.
C7_UnknownStyleRejected ==
    (last.op = "plt_style_init" /\ last.style \notin Style) =>
        last.result = "InvalidArgument"

\* C8: for one or two independents, post sets the title to what
\* _build_plt_title returns, the x-label to "$" + the independents joined with
\* ",~" + "$" without parentheses, the y-label to "$dep$", and requests a
\* legend iff hasLabel is true (true when omitted).
C8_PostSetsAnnotation ==
    (last.op = "post" /\ Len(last.vs) \in {1, 2}) =>
        /\ fig.title = _build_plt_title(last.ans, last.vs, last.params)
        /\ fig.xlabel = (IF Len(last.vs) = 1
                         THEN "$" \o last.vs[1] \o "$"
                         ELSE "$" \o last.vs[1] \o ",~" \o last.vs[2] \o "$")
        /\ fig.ylabel = "$" \o last.ans \o "$"
        /\ ("legend" \in {fig.calls[i] : i \in 1..Len(fig.calls)})
               <=> (~last.hasLabel.given \/ last.hasLabel.val)
        /\ fig.calls \in {<<"title", "xlabel", "ylabel">>,
                          <<"title", "xlabel", "ylabel", "legend">>}

C8_Witness ==
    /\ last.op = "post"
    /\ last.vs = <<"x", "t">>
    /\ last.hasLabel = [given |-> TRUE, val |-> FALSE]
    /\ fig.xlabel = "$x,~t$"
    /\ fig.calls = <<"title", "xlabel", "ylabel">>
    /\ fig.legend

\* C9: line_vertical and line_horizontal accept a single value or any ordered
\* sequence of n values, list or not; they draw exactly n lines (one for a
\* single value), one per value in order, each at that value's coordinate and
\* spanning the other axis' view range as read before the first line.
C9_OneLinePerValue ==
    IsGuideCall =>
        /\ Len(ax.lines) = Len(last.args.vals)
        /\ \A i \in 1..Len(ax.lines) :
               ax.lines[i] =
                   IF last.op = "line_vertical"
                   THEN [xs |-> <<last.args.vals[i], last.args.vals[i]>>,
                         ys |-> last.pre.ylim]
                   ELSE [xs |-> last.pre.xlim,
                         ys |-> <<last.args.vals[i], last.args.vals[i]>>]

\* Two different values passed as a tuple to axes that autoscale: two lines.
C9_Witness ==
    /\ last.op = "line_vertical"
    /\ last.args.kind = "tuple"
    /\ Len(last.args.vals) = 2
    /\ last.args.vals[1] # last.args.vals[2]
    /\ last.pre.autoscaley
    /\ Len(ax.lines) = 2

Malformed(p) == Len(p) # 2

\* C10: a point that does not have exactly two coordinates, passed to line or
\* to mark_point, makes the call fail (any error is taken for the claim's
\* InvalidArgument), nothing is drawn and the axes are unchanged.
C10_MalformedPointRejected ==
    \/ last.op \notin {"line", "mark_point"}
    \/ (last.op = "line" /\ ~Malformed(last.args[1]) /\ ~Malformed(last.args[2]))
    \/ (last.op = "mark_point" /\ ~Malformed(last.args))
    \/ /\ last.result # "ok"
       /\ ax.lines = <<>>
       /\ ax.points = <<>>
       /\ View(ax) = last.pre
====
